---- MODULE Spec2Model ----
(***************************************************************************)
(* A model of notes.py: pitch classes (Note), absolute pitches (Pitch),    *)
(* scales (Scale) and the scale search (scales_with).                      *)
(*                                                                         *)
(* Python values are records [cls, value]: cls is the Python class name.   *)
(* Text is a sequence of one-character strings, so that the regular        *)
(* expressions, int() and str() are computed character by character.       *)
(* A call that raises returns a record whose cls is the exception class.   *)
(***************************************************************************)
EXTENDS Integers, Sequences, FiniteSets

VARIABLES input, op, args, ret, exact

vars == <<input, op, args, ret, exact>>

(***************************************************************************)
(* Bounds of the model.                                                    *)
(***************************************************************************)
MaxInt == 13
MaxAbs == 26

(***************************************************************************)
(* Python values.                                                          *)
(***************************************************************************)
None == [cls |-> "NoneType", value |-> 0]
PyInt(n) == [cls |-> "int", value |-> n]
PyFloat(n) == [cls |-> "float", value |-> n]
PyBool(b) == [cls |-> "bool", value |-> b]
PyStr(s) == [cls |-> "str", value |-> s]
Raise(e) == [cls |-> e, value |-> 0]

\* the list that a comprehension or an iterator builds, element by element
List(f) == f \o <<>>

IsRaise(v) == v.cls \in {"TypeError", "ValueError"}

\* the flat glyph U+266D, one character
FLAT == "U+266D"

NOTES == << <<"C">>, <<"D", "b">>, <<"D">>, <<"E", "b">>, <<"E">>, <<"F">>,
            <<"G", "b">>, <<"G">>, <<"A", "b">>, <<"A">>, <<"B", "b">>, <<"B">> >>

OCTAVE == Len(NOTES)

(***************************************************************************)
(* class _BaseInt                                                          *)
(***************************************************************************)
BaseInt_eq_noraise(self, other) ==
    IF other.cls = "int" \/ other.cls = self.cls
    THEN PyBool(self.value = other.value)
    ELSE PyBool(FALSE)

BaseInt_eq_reduced(self, other) ==
    IF other.cls = "int" \/ other.cls = self.cls
    THEN PyBool(self.value % 12 = other.value % 12)
    ELSE Raise("TypeError")

\* _BaseInt.__eq__
BaseInt_eq(self, other) ==
    IF other.cls = "int" \/ other.cls = self.cls
    THEN PyBool(self.value = other.value)
    ELSE Raise("TypeError")

\* _BaseInt.__ne__: "not self == other"; the exception of == propagates
BaseInt_ne(self, other) ==
    LET e == BaseInt_eq(self, other)
    IN  IF IsRaise(e) THEN e ELSE PyBool(~e.value)

(***************************************************************************)
(* class Note                                                              *)
(***************************************************************************)
Note_unreduced(value) == [cls |-> "Note", value |-> value]

\* Note.__init__
Note(value) == [cls |-> "Note", value |-> value % Len(NOTES)]

\* Note.__add__
Note_add(self, other) ==
    IF other.cls = "int"
    THEN Note(self.value + other.value)
    ELSE Raise("ValueError")

\* Note.__sub__
Note_sub(self, other) ==
    IF other.cls = "int"
    THEN Note(self.value - other.value)
    ELSE IF other.cls = "Note"
    THEN PyInt((self.value - other.value) % Len(NOTES))
    ELSE Raise("ValueError")

\* str.replace(old, new) for a one-character old
Replace(s, old, new) == [i \in 1..Len(s) |-> IF s[i] = old THEN new ELSE s[i]]

\* Note.__str__
Note_str(self) == Replace(NOTES[self.value + 1], "b", FLAT)

(***************************************************************************)
(* Regular expressions.  re.match with "^...$": Python's "$" matches at    *)
(* the end of the text and also just before a newline that ends the text,  *)
(* so the pattern is tried on the text and on the text without its final   *)
(* newline.  None of the patterns can match a newline themselves.          *)
(***************************************************************************)
Letters == {"A", "B", "C", "D", "E", "F", "G", "a", "b", "c", "d", "e", "f", "g"}
Digits == {"0", "1", "2", "3", "4", "5", "6", "7", "8", "9"}

Dollar(s) ==
    {s} \cup (IF Len(s) > 0 /\ s[Len(s)] = "\n" THEN {SubSeq(s, 1, Len(s) - 1)} ELSE {})

NoMatch == [matched |-> FALSE]

\* the length of the text NOTE_PATTERN takes at the start of b, 0 when it does not match
NoteLen(b) ==
    IF Len(b) = 0 \/ b[1] \notin Letters THEN 0
    ELSE IF Len(b) >= 2 /\ b[2] \in {"#", "b"} THEN 2 ELSE 1

IsDigits(d) == Len(d) >= 1 /\ \A i \in 1..Len(d) : d[i] \in Digits

\* -?\d+
IsOctaveText(r) == IsDigits(IF Len(r) > 0 /\ r[1] = "-" THEN Tail(r) ELSE r)

\* Note.NOTE_RE.match
NOTE_RE_match(s) ==
    LET ms == {b \in Dollar(s) : NoteLen(b) > 0 /\ NoteLen(b) = Len(b)}
    IN  IF ms = {} THEN NoMatch
        ELSE LET b == CHOOSE m \in ms : TRUE
             IN  [matched |-> TRUE, g1 |-> b[1], g2 |-> SubSeq(b, 2, Len(b))]

\* Pitch.PITCH.match; octave is <<>> when the optional group did not take part
PITCH_match(s) ==
    LET ok(b) == /\ NoteLen(b) > 0
                 /\ \/ Len(b) = NoteLen(b)
                    \/ IsOctaveText(SubSeq(b, NoteLen(b) + 1, Len(b)))
        ms == {b \in Dollar(s) : ok(b)}
    IN  IF ms = {} THEN NoMatch
        ELSE LET b == CHOOSE m \in ms : TRUE
             IN  [matched |-> TRUE, note |-> SubSeq(b, 1, NoteLen(b)),
                  octave |-> SubSeq(b, NoteLen(b) + 1, Len(b))]

ModeTokens == { <<"M">>, <<"m", "a", "j">>, <<"m", "i", "n">>, <<"m">> }

\* Scale.SCALE_RE.match
SCALE_RE_match(s) ==
    LET ok(b) == /\ NoteLen(b) > 0
                 /\ SubSeq(b, NoteLen(b) + 1, Len(b)) \in ModeTokens
        ms == {b \in Dollar(s) : ok(b)}
    IN  IF ms = {} THEN NoMatch
        ELSE LET b == CHOOSE m \in ms : TRUE
             IN  [matched |-> TRUE, g1 |-> SubSeq(b, 1, NoteLen(b)),
                  g4 |-> SubSeq(b, NoteLen(b) + 1, Len(b))]

\* Scale.TRAKTOR_RE.match
TRAKTOR_RE_match(s) ==
    LET ok(b) == /\ Len(b) \in {2, 3}
                 /\ IsDigits(SubSeq(b, 1, Len(b) - 1))
                 /\ b[Len(b)] \in {"m", "d"}
        ms == {b \in Dollar(s) : ok(b)}
    IN  IF ms = {} THEN NoMatch
        ELSE LET b == CHOOSE m \in ms : TRUE
             IN  [matched |-> TRUE, g1 |-> SubSeq(b, 1, Len(b) - 1), g2 |-> b[Len(b)]]

(***************************************************************************)
(* Builtins: str.upper, list.index, int(text), str(int).                   *)
(***************************************************************************)
Upper(c) ==
    CASE c = "a" -> "A" [] c = "b" -> "B" [] c = "c" -> "C" [] c = "d" -> "D"
      [] c = "e" -> "E" [] c = "f" -> "F" [] c = "g" -> "G" [] OTHER -> c

\* NOTES.index(name), 0-based
Index(name) == (CHOOSE i \in 1..Len(NOTES) : NOTES[i] = name) - 1

DigitVal(c) ==
    CASE c = "0" -> 0 [] c = "1" -> 1 [] c = "2" -> 2 [] c = "3" -> 3 [] c = "4" -> 4
      [] c = "5" -> 5 [] c = "6" -> 6 [] c = "7" -> 7 [] c = "8" -> 8 [] c = "9" -> 9

DigitChar(n) ==
    CASE n = 0 -> "0" [] n = 1 -> "1" [] n = 2 -> "2" [] n = 3 -> "3" [] n = 4 -> "4"
      [] n = 5 -> "5" [] n = 6 -> "6" [] n = 7 -> "7" [] n = 8 -> "8" [] n = 9 -> "9"

RECURSIVE ParseNat(_)
ParseNat(d) ==
    IF Len(d) = 0 THEN 0
    ELSE 10 * ParseNat(SubSeq(d, 1, Len(d) - 1)) + DigitVal(d[Len(d)])

\* int(text) for a text matching -?\d+
ParseInt(t) == IF t[1] = "-" THEN 0 - ParseNat(Tail(t)) ELSE ParseNat(t)

RECURSIVE NatStr(_)
NatStr(n) == IF n < 10 THEN <<DigitChar(n)>> ELSE NatStr(n \div 10) \o <<DigitChar(n % 10)>>

\* str(n) for an int n
IntStr(n) == IF n < 0 THEN <<"-">> \o NatStr(0 - n) ELSE NatStr(n)

\* the int Note.from_str computes before it builds the Note
Note_from_str_value(m) ==
    LET value == Index(<<Upper(m.g1)>>)
    IN  IF m.g2 = <<"#">> THEN value + 1
        ELSE IF m.g2 = <<"b">> THEN value - 1
        ELSE value

\* Note.from_str
Note_from_str(note) ==
    LET match == NOTE_RE_match(note)
    IN  IF ~match.matched THEN None ELSE Note(Note_from_str_value(match))

A == Note(-3)

\* iter_notes
iter_notes(start) ==
    List([semitons \in 1..Len(NOTES) |-> Note_add(start, PyInt(semitons - 1))])

(***************************************************************************)
(* class Pitch                                                             *)
(***************************************************************************)
\* Pitch.__init__; note is a Note or an int
Pitch(note, octave) == [cls |-> "Pitch", value |-> note.value + octave * OCTAVE]

\* Pitch.note
Pitch_note(self) == Note(self.value)

\* Pitch.octave
Pitch_octave(self) == self.value \div OCTAVE

\* Pitch.__str__
Pitch_str(self) == Note_str(Pitch_note(self)) \o IntStr(Pitch_octave(self))

\* Pitch.__add__
Pitch_add(self, other) ==
    IF other.cls = "int"
    THEN Pitch(PyInt(self.value + other.value), 0)
    ELSE Raise("ValueError")

\* Pitch.__sub__
Pitch_sub(self, other) ==
    IF other.cls = "int"
    THEN Pitch(PyInt(self.value - other.value), 0)
    ELSE IF other.cls = "Pitch"
    THEN PyInt(self.value - other.value)
    ELSE Raise("ValueError")

\* Pitch.from_note
Pitch_from_note(note, octave) == Pitch(PyInt(note.value + octave * OCTAVE), 0)

\* Pitch.from_str
Pitch_from_str(pitch) ==
    LET match == PITCH_match(pitch)
    IN  IF ~match.matched THEN None
        ELSE LET note == Note_from_str(match.note)
                 octave == IF match.octave = <<>> THEN 0 ELSE ParseInt(match.octave)
             IN  Pitch_from_note(note, octave)

(***************************************************************************)
(* class Scale.  A mode is the text "maj" or "min".                        *)
(***************************************************************************)
MAJ == <<"m", "a", "j">>
MIN == <<"m", "i", "n">>

\* Scale.__init__
Scale(note, mode) == [cls |-> "Scale", note |-> note, mode |-> mode]

\* Scale.TRAKTOR_START
TRAKTOR_START(mode) == IF mode = MIN THEN Note_from_str(<<"A">>) ELSE Note_from_str(<<"C">>)

\* Scale.TONES
TONES(mode) == IF mode = MAJ THEN <<2, 2, 1, 2, 2, 2, 1>> ELSE <<2, 1, 2, 2, 1, 3, 1>>

\* Scale.from_str
Scale_from_str(scale) ==
    LET match == SCALE_RE_match(scale)
    IN  IF ~match.matched THEN None
        ELSE LET note == Note_from_str(match.g1)
                 mode == IF match.g4 = <<"m">> THEN MIN
                         ELSE IF match.g4 = <<"M">> THEN MAJ
                         ELSE match.g4
             IN  Scale(note, mode)

\* Scale.__str__
Scale_str(self) == Note_str(self.note) \o self.mode

Scale_from_traktor_by_semitone(scale) ==
    LET match == TRAKTOR_RE_match(scale)
    IN  IF ~match.matched THEN None
        ELSE LET index == ParseNat(match.g1) - 1
                 mode == IF match.g2 = "m" THEN MIN ELSE MAJ
             IN  Scale(Note(TRAKTOR_START(mode).value + index), mode)

\* Scale.from_traktor
Scale_from_traktor(scale) ==
    LET match == TRAKTOR_RE_match(scale)
    IN  IF ~match.matched THEN None
        ELSE LET index == ParseNat(match.g1) - 1
                 mode == IF match.g2 = "m" THEN MIN ELSE MAJ
             IN  Scale(Note(TRAKTOR_START(mode).value + 7 * index), mode)

\* Scale.traktor
Scale_traktor(self) ==
    LET mode == IF self.mode = MIN THEN "m" ELSE "d"
        note == ((7 * (self.note.value - TRAKTOR_START(self.mode).value)) % Len(NOTES)) + 1
    IN  IntStr(note) \o <<mode>>

\* the loop of Scale.notes: append notes[-1] + delta for each delta
RECURSIVE NotesLoop(_, _)
NotesLoop(notes, deltas) ==
    IF Len(deltas) = 0 THEN notes
    ELSE NotesLoop(Append(notes, Note_add(notes[Len(notes)], PyInt(Head(deltas)))), Tail(deltas))

Scale_notes_all_tones(self) == NotesLoop(<<self.note>>, TONES(self.mode))

\* Scale.notes
Scale_notes(self) ==
    NotesLoop(<<self.note>>, SubSeq(TONES(self.mode), 1, Len(TONES(self.mode)) - 1))

(***************************************************************************)
(* Scale search.                                                           *)
(***************************************************************************)
\* iter_scales, as the list of what it yields
iter_scales(start, mode) ==
    LET modes == IF mode = None THEN <<MIN, MAJ>> ELSE <<mode>>
        notes == iter_notes(start)
    IN  List([k \in 1..(Len(notes) * Len(modes)) |->
            Scale(notes[((k - 1) \div Len(modes)) + 1], modes[((k - 1) % Len(modes)) + 1])])

\* ord(c) for the characters of a formatted scale
Ord(c) ==
    CASE c = "A" -> 65 [] c = "B" -> 66 [] c = "C" -> 67 [] c = "D" -> 68
      [] c = "E" -> 69 [] c = "F" -> 70 [] c = "G" -> 71
      [] c = "a" -> 97 [] c = "i" -> 105 [] c = "j" -> 106 [] c = "m" -> 109
      [] c = "n" -> 110 [] c = FLAT -> 9837

\* s < t for two texts: by code point, a proper prefix first
RECURSIVE StrLess(_, _)
StrLess(s, t) ==
    IF Len(t) = 0 THEN FALSE
    ELSE IF Len(s) = 0 THEN TRUE
    ELSE IF s[1] # t[1] THEN Ord(s[1]) < Ord(t[1])
    ELSE StrLess(Tail(s), Tail(t))

\* k < l for two keys (int, text) of _sort_key
KeyLess(k, l) == k[1] < l[1] \/ (k[1] = l[1] /\ StrLess(k[2], l[2]))

\* one step of a stable sort: item goes after every item already placed
\* that does not come after it; with reverse the greater key comes first
Place(done, item, key, reverse) ==
    LET later(l) == IF reverse THEN KeyLess(l, key) ELSE KeyLess(key, l)
        after == {p \in 1..Len(done) : later(done[p][1])}
        at == IF after = {} THEN Len(done) + 1
              ELSE CHOOSE p \in after : \A q \in after : p <= q
    IN  SubSeq(done, 1, at - 1) \o << <<key, item>> >> \o SubSeq(done, at, Len(done))

RECURSIVE PlaceAll(_, _, _, _, _)
PlaceAll(done, items, keys, n, reverse) ==
    IF n > Len(items) THEN List([p \in 1..Len(done) |-> done[p][2]])
    ELSE PlaceAll(Place(done, items[n], keys[n], reverse), items, keys, n + 1, reverse)

\* sorted(items, key, reverse=False): ascending, stable
SortedAscending(items, keys) == PlaceAll(<<>>, items, keys, 1, FALSE)

\* sorted(items, key, reverse=True): descending by key, equal keys in their original order
SortedReverse(items, keys) == PlaceAll(<<>>, items, keys, 1, TRUE)

\* _sort_key
sort_key(pair) == <<Len(pair[1]), Scale_str(pair[2])>>

AllScales == iter_scales(A, None)

scales_with_no_set(notes, perfect) ==
    LET targets == {notes[i] : i \in 1..Len(notes)}
        scales == AllScales
        in(note) == note \in targets
        commons == List([i \in 1..Len(scales) |-> SelectSeq(Scale_notes(scales[i]), in)])
        fits(scale) == \E i \in 1..Len(scales) :
                          scales[i] = scale /\ Len(commons[i]) = Len(notes)
        pairs == List([i \in 1..Len(scales) |-> <<commons[i], scales[i]>>])
    IN  IF perfect THEN SelectSeq(scales, fits)
        ELSE SortedReverse(pairs, List([i \in 1..Len(pairs) |-> sort_key(pairs[i])]))

\* scales_with(*notes, perfect)
scales_with(notes, perfect) ==
    LET targets == {notes[i] : i \in 1..Len(notes)}
        scales == AllScales
        in(note) == note \in targets
        commons == List([i \in 1..Len(scales) |-> SelectSeq(Scale_notes(scales[i]), in)])
        fits(scale) == \E i \in 1..Len(scales) :
                          scales[i] = scale /\ Len(commons[i]) = Cardinality(targets)
        pairs == List([i \in 1..Len(scales) |-> <<commons[i], scales[i]>>])
    IN  IF perfect THEN SelectSeq(scales, fits)
        ELSE SortedReverse(pairs, List([i \in 1..Len(pairs) |-> sort_key(pairs[i])]))

(***************************************************************************)
(* Arithmetic and comparison of Note and Pitch.                            *)
(*                                                                         *)
(* op, args and ret are the last call, its arguments (the receiver first)  *)
(* and what it returned or raised.  A method is called on the object the   *)
(* last call returned.  exact is the integer that object stands for when   *)
(* nothing is reduced: the sum of the constructor's value and of every     *)
(* interval added since.                                                   *)
(***************************************************************************)
Ints == (0 - MaxInt)..MaxInt

NoteTexts ==
    {<<l>> : l \in Letters \cup {"H"}} \cup {<<l, m>> : l \in Letters, m \in {"#", "b"}}

Others ==
    {PyInt(n) : n \in Ints} \cup {Note(k) : k \in 0..11}
        \cup {Pitch(PyInt(v), 0) : v \in {-13, 0, 5, 12}}
        \cup {PyStr(<<"C">>), None, PyFloat(1)}

InBound(n) == (0 - MaxAbs) <= n /\ n <= MaxAbs

Init ==
    /\ input = None
    /\ op = "import"
    /\ args = <<>>
    /\ ret = None
    /\ exact = 0

NoteNew(n) ==
    /\ op' = "Note"
    /\ args' = <<PyInt(n)>>
    /\ ret' = Note(n)
    /\ exact' = n
    /\ UNCHANGED input

NoteFromStr(s) ==
    /\ op' = "Note.from_str"
    /\ args' = <<PyStr(s)>>
    /\ ret' = Note_from_str(s)
    /\ exact' = IF NOTE_RE_match(s).matched THEN Note_from_str_value(NOTE_RE_match(s)) ELSE 0
    /\ UNCHANGED input

NoteAdd(other) ==
    /\ ret.cls = "Note"
    /\ op' = "Note.__add__"
    /\ args' = <<ret, other>>
    /\ ret' = Note_add(ret, other)
    /\ exact' = IF other.cls = "int" THEN exact + other.value ELSE exact
    /\ InBound(exact')
    /\ UNCHANGED input

NoteSub(other) ==
    /\ ret.cls = "Note"
    /\ op' = "Note.__sub__"
    /\ args' = <<ret, other>>
    /\ ret' = Note_sub(ret, other)
    /\ exact' = IF other.cls \in {"int", "Note"} THEN exact - other.value ELSE exact
    /\ InBound(exact')
    /\ UNCHANGED input

NoteEq(other) ==
    /\ ret.cls = "Note"
    /\ op' = "Note.__eq__"
    /\ args' = <<ret, other>>
    /\ ret' = BaseInt_eq(ret, other)
    /\ UNCHANGED <<input, exact>>

NoteNe(other) ==
    /\ ret.cls = "Note"
    /\ op' = "Note.__ne__"
    /\ args' = <<ret, other>>
    /\ ret' = BaseInt_ne(ret, other)
    /\ UNCHANGED <<input, exact>>

PitchNew(note, octave) ==
    /\ InBound(note.value + octave * OCTAVE)
    /\ op' = "Pitch"
    /\ args' = <<note, PyInt(octave)>>
    /\ ret' = Pitch(note, octave)
    /\ exact' = note.value + octave * OCTAVE
    /\ UNCHANGED input

PitchAdd(other) ==
    /\ ret.cls = "Pitch"
    /\ op' = "Pitch.__add__"
    /\ args' = <<ret, other>>
    /\ ret' = Pitch_add(ret, other)
    /\ exact' = IF other.cls = "int" THEN exact + other.value ELSE exact
    /\ InBound(exact')
    /\ UNCHANGED input

PitchSub(other) ==
    /\ ret.cls = "Pitch"
    /\ op' = "Pitch.__sub__"
    /\ args' = <<ret, other>>
    /\ ret' = Pitch_sub(ret, other)
    /\ exact' = IF other.cls \in {"int", "Pitch"} THEN exact - other.value ELSE exact
    /\ InBound(exact')
    /\ UNCHANGED input

Next ==
    \/ \E n \in Ints : NoteNew(n)
    \/ \E s \in NoteTexts : NoteFromStr(s)
    \/ \E other \in Others : NoteAdd(other)
    \/ \E other \in Others : NoteSub(other)
    \/ \E other \in Others : NoteEq(other)
    \/ \E other \in Others : NoteNe(other)
    \/ \E k \in 0..11, octave \in -2..2 : PitchNew(Note(k), octave)
    \/ \E other \in Others : PitchAdd(other)
    \/ \E other \in Others : PitchSub(other)

Spec == Init /\ [][Next]_vars

(***************************************************************************)
(* Claims on arithmetic and comparison, checked under Spec.                *)
(***************************************************************************)
IsCompare == op \in {"Note.__eq__", "Note.__ne__"}

\* what the comparison answers for "equal": == as is, != negated
SaysEqual == IF op = "Note.__eq__" THEN ret.value ELSE ~ret.value

\* C6 as stated: a Note compared with a Note or an int is equal to it exactly
\* when the two values agree modulo 12, and != is the negation.
C6_Original ==
    (IsCompare /\ args[2].cls \in {"int", "Note"}) =>
        /\ ret.cls = "bool"
        /\ SaysEqual <=> \E k \in -4..4 : args[2].value = args[1].value + 12 * k

\* C6 amended: a Note equals a Note of the same pitch class and equals the
\* int that is its own value in 0..11; an int outside 0..11 is equal to no
\* Note.  != is the negation.
C6_Equality ==
    (IsCompare /\ args[2].cls \in {"int", "Note"}) =>
        /\ ret.cls = "bool"
        /\ SaysEqual <=> /\ args[2].value \in 0..11
                         /\ args[2].value = args[1].value

C6_Witness ==
    /\ op = "Note.__eq__"
    /\ args = <<Note(0), PyInt(12)>>
    /\ ret = PyBool(FALSE)

\* C7: == and != of a Note with a value that is neither an int nor a Note
\* raise TypeError; + with a non-int, and - with a value that is neither an
\* int nor of the receiver's class, raise; none of them returns a value.
C7_TypeMismatchRaises ==
    /\ (IsCompare /\ args[2].cls \notin {"int", "Note"}) => ret.cls = "TypeError"
    /\ (op \in {"Note.__add__", "Pitch.__add__"} /\ args[2].cls # "int") => IsRaise(ret)
    /\ (op \in {"Note.__sub__", "Pitch.__sub__"} /\ args[2].cls \notin {"int", args[1].cls})
           => IsRaise(ret)

C7_Witness ==
    /\ op = "Note.__eq__"
    /\ args[2] = PyStr(<<"C">>)
    /\ ret.cls = "TypeError"

\* C10: every Note built by the constructor, +, - or from_str holds a value
\* in 0..11 that differs from the unreduced integer by a multiple of 12; the
\* difference of two Notes is such an int too; Note(n) == Note(n + 12).
C10_Modulo12 ==
    /\ (ret.cls = "Note" \/ (op = "Note.__sub__" /\ args[2].cls = "Note")) =>
           /\ ret.value \in 0..11
           /\ \E k \in -4..4 : exact = ret.value + 12 * k
    /\ op = "Note" => BaseInt_eq(ret, Note(args[1].value + 12)) = PyBool(TRUE)

C10_Witness ==
    /\ op = "Note.__sub__"
    /\ args[2].cls = "int"
    /\ exact < -12
    /\ ret.cls = "Note"

(***************************************************************************)
(* Parsing and formatting.  A run draws one text, gives it to one of the   *)
(* three parsers, and may format the Pitch it got and parse that again.    *)
(* The texts are the concatenations of at most MaxParts pieces.            *)
(***************************************************************************)
MaxParts == 3

Pieces ==
    {<<c>> : c \in {"A", "B", "C", "D", "E", "F", "G", "g", "H", "#", "b", FLAT,
                    "-", "0", "1", "M", "m", "\n", " "}}
        \cup {<<"-", "1">>, MAJ, MIN}

RECURSIVE Concat(_)
Concat(parts) == IF Len(parts) = 0 THEN <<>> ELSE Head(parts) \o Concat(Tail(parts))

InitParse ==
    /\ \E k \in 0..MaxParts : \E parts \in [1..k -> Pieces] : input = PyStr(Concat(parts))
    /\ op = "input"
    /\ args = <<>>
    /\ ret = None
    /\ exact = 0

PitchFromStr(s) ==
    /\ op' = "Pitch.from_str"
    /\ args' = <<PyStr(s)>>
    /\ ret' = Pitch_from_str(s)
    /\ exact' = IF ret'.cls = "Pitch" THEN ret'.value ELSE 0
    /\ UNCHANGED input

ScaleFromStr(s) ==
    /\ op' = "Scale.from_str"
    /\ args' = <<PyStr(s)>>
    /\ ret' = Scale_from_str(s)
    /\ exact' = 0
    /\ UNCHANGED input

\* str(pitch) of the Pitch just parsed
PitchStr ==
    /\ op = "Pitch.from_str"
    /\ ret.cls = "Pitch"
    /\ op' = "Pitch.__str__"
    /\ args' = <<ret>>
    /\ ret' = PyStr(Pitch_str(ret))
    /\ UNCHANGED <<input, exact>>

\* Pitch.from_str(str(pitch))
PitchReparse ==
    /\ op = "Pitch.__str__"
    /\ op' = "Pitch.from_str(str)"
    /\ args' = <<ret>>
    /\ ret' = Pitch_from_str(ret.value)
    /\ UNCHANGED <<input, exact>>

NextParse ==
    \/ op = "input" /\ NoteFromStr(input.value)
    \/ op = "input" /\ PitchFromStr(input.value)
    \/ op = "input" /\ ScaleFromStr(input.value)
    \/ PitchStr
    \/ PitchReparse

SpecParse == InitParse /\ [][NextParse]_vars

(***************************************************************************)
(* Claims on parsing, checked under SpecParse.  The grammars are written   *)
(* out on the whole text.                                                  *)
(***************************************************************************)
InNoteGrammar(s) ==
    /\ Len(s) \in {1, 2}
    /\ s[1] \in Letters
    /\ Len(s) = 2 => s[2] \in {"#", "b"}

InOctaveGrammar(s) ==
    \/ Len(s) >= 1 /\ \A i \in 1..Len(s) : s[i] \in Digits
    \/ Len(s) >= 2 /\ s[1] = "-" /\ \A i \in 2..Len(s) : s[i] \in Digits

InPitchGrammar(s) ==
    \E i \in 1..Len(s) :
        /\ InNoteGrammar(SubSeq(s, 1, i))
        /\ i = Len(s) \/ InOctaveGrammar(SubSeq(s, i + 1, Len(s)))

InScaleGrammar(s) ==
    \E i \in 1..Len(s) :
        /\ InNoteGrammar(SubSeq(s, 1, i))
        /\ SubSeq(s, i + 1, Len(s)) \in ModeTokens

\* C2: a text of the pitch grammar parses to a Pitch, and the text that
\* Pitch formats to parses to an equal Pitch.
C2_RoundTrip ==
    /\ (op = "Pitch.from_str" /\ InPitchGrammar(args[1].value)) => ret.cls = "Pitch"
    /\ op = "Pitch.from_str(str)" => (ret.cls = "Pitch" /\ ret.value = exact)

\* C8: each parser returns a value exactly for the texts of its grammar and
\* None for every other text, and never raises.
C8_ParseAbsence ==
    /\ op = "Note.from_str" =>
           IF InNoteGrammar(args[1].value) THEN ret.cls = "Note" ELSE ret = None
    /\ op = "Pitch.from_str" =>
           IF InPitchGrammar(args[1].value) THEN ret.cls = "Pitch" ELSE ret = None
    /\ op = "Scale.from_str" =>
           IF InScaleGrammar(args[1].value) THEN ret.cls = "Scale" ELSE ret = None

(***************************************************************************)
(* Scales.  A run draws either a text, which it gives to                   *)
(* Scale.from_traktor, or a root and a mode, from which it builds a Scale; *)
(* it may then read traktor or notes of the Scale it got.                  *)
(***************************************************************************)
MaxTraktorLen == 3

TraktorChars == Digits \cup {"m", "d", "M", "\n"}

PyTuple(t) == [cls |-> "tuple", value |-> t]
PyList(l) == [cls |-> "list", value |-> l]

InitScale ==
    /\ \/ \E k \in 0..MaxTraktorLen : \E s \in [1..k -> TraktorChars] : input = PyStr(List(s))
       \/ \E k \in 0..11, mode \in {MAJ, MIN} : input = PyTuple(<<Note(k), mode>>)
    /\ op = "input"
    /\ args = <<>>
    /\ ret = None
    /\ exact = 0

ScaleNew ==
    /\ op = "input"
    /\ input.cls = "tuple"
    /\ op' = "Scale"
    /\ args' = input.value
    /\ ret' = Scale(input.value[1], input.value[2])
    /\ UNCHANGED <<input, exact>>

ScaleFromTraktor ==
    /\ op = "input"
    /\ input.cls = "str"
    /\ op' = "Scale.from_traktor"
    /\ args' = <<input>>
    /\ ret' = Scale_from_traktor(input.value)
    /\ UNCHANGED <<input, exact>>

ScaleTraktor ==
    /\ ret.cls = "Scale"
    /\ op' = "Scale.traktor"
    /\ args' = <<ret>>
    /\ ret' = PyStr(Scale_traktor(ret))
    /\ UNCHANGED <<input, exact>>

ScaleNotes ==
    /\ ret.cls = "Scale"
    /\ op' = "Scale.notes"
    /\ args' = <<ret>>
    /\ ret' = PyList(Scale_notes(ret))
    /\ UNCHANGED <<input, exact>>

NextScale ==
    \/ ScaleNew
    \/ ScaleFromTraktor
    \/ ScaleTraktor
    \/ ScaleNotes

SpecScale == InitScale /\ [][NextScale]_vars

(***************************************************************************)
(* Claims on scales, checked under SpecScale.                              *)
(***************************************************************************)
Glyphs == {"m", "d"}

\* the texts '<index><glyph>' for index in 1..12, index written in decimal
CanonicalTraktor ==
    {<<"1">>, <<"2">>, <<"3">>, <<"4">>, <<"5">>, <<"6">>, <<"7">>, <<"8">>, <<"9">>,
     <<"1", "0">>, <<"1", "1">>, <<"1", "2">>} \X Glyphs

CanonicalText(x) == x[1] \o <<x[2]>>

\* C4: for index in 1..12 and glyph in {m, d}, the Scale parsed from
\* '<index><glyph>' has that text as its traktor, and the 24 texts give 24
\* distinct scales.
C4_TraktorRoundTrip ==
    \A x \in CanonicalTraktor :
        /\ (op = "Scale.from_traktor" /\ input.value = CanonicalText(x)) =>
               /\ ret.cls = "Scale"
               /\ \A y \in CanonicalTraktor \ {x} : Scale_from_traktor(CanonicalText(y)) # ret
        /\ (op = "Scale.traktor" /\ input.cls = "str" /\ input.value = CanonicalText(x)) =>
               ret = input

C4_Witness ==
    /\ op = "Scale.traktor"
    /\ input = PyStr(<<"1", "2", "d">>)
    /\ ret = input

\* the index a text of one or two decimal digits denotes, -1 for any other text
IndexOf(t) ==
    IF Len(t) = 1 /\ t[1] \in Digits THEN DigitVal(t[1])
    ELSE IF Len(t) = 2 /\ t[1] \in Digits /\ t[2] \in Digits
    THEN 10 * DigitVal(t[1]) + DigitVal(t[2])
    ELSE -1

\* C5: from_traktor returns a Scale exactly for the texts made of an index
\* of one or two digits in 1..12 and of m or d: minor for m, major for d,
\* root (start + 7 * (index - 1)) mod 12 with start A for minor and C for
\* major; it returns None for every other text.
C5_TraktorParse ==
    op = "Scale.from_traktor" =>
        LET t == input.value
            index == IF Len(t) >= 2 THEN IndexOf(SubSeq(t, 1, Len(t) - 1)) ELSE -1
            glyph == IF Len(t) >= 2 THEN t[Len(t)] ELSE ""
        IN  IF index \in 1..12 /\ glyph \in Glyphs
            THEN /\ ret.cls = "Scale"
                 /\ ret.mode = (IF glyph = "m" THEN MIN ELSE MAJ)
                 /\ ret.note.cls = "Note"
                 /\ ret.note.value \in 0..11
                 /\ \E k \in 0..7 :
                        ret.note.value + 12 * k
                            = (IF glyph = "m" THEN 9 ELSE 0) + 7 * (index - 1)
            ELSE ret = None

\* the notes of a scale by the sum of the first k-1 steps of its pattern
Steps(mode) == IF mode = MAJ THEN <<2, 2, 1, 2, 2, 2>> ELSE <<2, 1, 2, 2, 1, 3>>

RECURSIVE SumFirst(_, _)
SumFirst(steps, n) == IF n = 0 THEN 0 ELSE SumFirst(steps, n - 1) + steps[n]

\* C9: notes is a list of exactly 7 Notes; the first is the root and the
\* k-th is the root plus the sum of the first k-1 steps of the mode, reduced
\* modulo 12; C major gives 0, 2, 4, 5, 7, 9, 11.
C9_ScaleNotes ==
    op = "Scale.notes" =>
        LET self == args[1]
            notes == ret.value
        IN  /\ Len(notes) = 7
            /\ notes[1] = self.note
            /\ \A k \in 1..7 :
                   /\ notes[k].cls = "Note"
                   /\ notes[k].value \in 0..11
                   /\ \E w \in 0..1 :
                          notes[k].value + 12 * w
                              = self.note.value + SumFirst(Steps(self.mode), k - 1)
            /\ (self.note.value = 0 /\ self.mode = MAJ) =>
                   [k \in 1..7 |-> notes[k].value] = <<0, 2, 4, 5, 7, 9, 11>>

C9_Witness ==
    /\ op = "Scale.notes"
    /\ args[1] = Scale(Note(0), MAJ)
    /\ Len(ret.value) = 7
    /\ ret.value[7] = Note(11)

(***************************************************************************)
(* Scale search.  A run draws the target notes, at most MaxTargets of      *)
(* them and in any order, with repetitions, and the flag perfect, and      *)
(* calls scales_with.                                                      *)
(***************************************************************************)
MaxTargets == 3

InitSearch ==
    /\ \E k \in 0..MaxTargets : \E notes \in [1..k -> {Note(v) : v \in 0..11}] :
           \E perfect \in BOOLEAN : input = PyTuple(<<List(notes), perfect>>)
    /\ op = "input"
    /\ args = <<>>
    /\ ret = None
    /\ exact = 0

ScalesWith ==
    /\ op = "input"
    /\ op' = "scales_with"
    /\ args' = input.value
    /\ ret' = PyList(scales_with(input.value[1], input.value[2]))
    /\ UNCHANGED <<input, exact>>

NextSearch == ScalesWith

SpecSearch == InitSearch /\ [][NextSearch]_vars

(***************************************************************************)
(* Claims on the scale search, checked under SpecSearch.                   *)
(***************************************************************************)
\* the 24 scales in the order of the enumeration: roots A, A+1, ..., A+11,
\* minor before major for each root
Universe ==
    [k \in 1..24 |->
        [cls |-> "Scale",
         note |-> [cls |-> "Note", value |-> (9 + ((k - 1) \div 2)) % 12],
         mode |-> IF k % 2 = 1 THEN MIN ELSE MAJ]] \o <<>>

\* the formatted names of the pitch classes 0..11
Names ==
    << <<"C">>, <<"D", FLAT>>, <<"D">>, <<"E", FLAT>>, <<"E">>, <<"F">>,
       <<"G", FLAT>>, <<"G">>, <<"A", FLAT>>, <<"A">>, <<"B", FLAT>>, <<"B">> >>

NameOf(scale) == Names[scale.note.value + 1] \o scale.mode

\* the set of the 7 notes of each scale of the universe
UniverseNotes ==
    List([k \in 1..24 |->
        LET notes == Scale_notes(Universe[k]) IN {notes[i] : i \in 1..Len(notes)}])

NotesOf(scale) == UniverseNotes[CHOOSE k \in 1..24 : Universe[k] = scale]

Targets == {args[1][i] : i \in 1..Len(args[1])}

Ranked == op = "scales_with" /\ ~args[2]

\* what every result of the search with perfect=False is: one pair for each
\* of the 24 scales, holding the notes of the scale that are targets
RankedPairs ==
    /\ Len(ret.value) = 24
    /\ \A k \in 1..24 : \E p \in 1..24 : ret.value[p][2] = Universe[k]
    /\ \A p \in 1..24 :
           LET common == ret.value[p][1]
               notes == NotesOf(ret.value[p][2])
           IN  /\ {common[i] : i \in 1..Len(common)} = notes \cap Targets
               /\ Len(common) = Cardinality(notes \cap Targets)

\* C1 as stated: with perfect=False the pairs come by matched-note count
\* descending and, for the same count, by formatted name ascending.
C1_Original ==
    Ranked =>
        /\ RankedPairs
        /\ \A p \in 1..23 :
               LET a == ret.value[p]
                   b == ret.value[p + 1]
               IN  \/ Len(a[1]) > Len(b[1])
                   \/ Len(a[1]) = Len(b[1]) /\ StrLess(NameOf(a[2]), NameOf(b[2]))

\* C1 amended: with perfect=False the pairs come by matched-note count
\* descending and, for the same count, by formatted name descending, names
\* compared by code point.
C1_RankedOrder ==
    Ranked =>
        /\ RankedPairs
        /\ \A p \in 1..23 :
               LET a == ret.value[p]
                   b == ret.value[p + 1]
               IN  \/ Len(a[1]) > Len(b[1])
                   \/ Len(a[1]) = Len(b[1]) /\ StrLess(NameOf(b[2]), NameOf(a[2]))

C1_Witness ==
    /\ Ranked
    /\ Targets = {Note(0), Note(4), Note(7)}
    /\ Len(ret.value[5][1]) = 3
    /\ ret.value[1][2] = Scale(Note(7), MAJ)
    /\ ret.value[5][2] = Scale(Note(0), MAJ)
    /\ Len(ret.value[6][1]) = 2

\* C3: with perfect=True the result is the scales whose 7 notes include
\* every target, each once, in the order of the enumeration; a target given
\* twice counts once; C major is there for the targets C, E, G.
C3_PerfectFit ==
    (op = "scales_with" /\ args[2]) =>
        LET fits(scale) == Targets \subseteq NotesOf(scale)
        IN  /\ ret.value = SelectSeq(Universe, fits)
            /\ Targets = {Note(0), Note(4), Note(7)} =>
                   \E p \in 1..Len(ret.value) : ret.value[p] = Scale(Note(0), MAJ)

C3_Witness ==
    /\ op = "scales_with"
    /\ args[2]
    /\ args[1] = <<Note(7), Note(0), Note(7)>>
    /\ Len(ret.value) = 10
    /\ ret.value[1] = Scale(Note(10), MAJ)

====
